---- MODULE Spec2Model ----
(***************************************************************************)
(* Task execution engine of the AI video generator.                        *)
(*                                                                         *)
(*   Spec          admission controller + task state machine               *)
(*                 (api/service.py, api/crud.py, api/router.py, app.py)    *)
(*   SpecPipeline  checkpointed pipeline on one working directory          *)
(*                 (services/video.py generate_video)                      *)
(*   SpecSelect    per-segment clip selection _find_closest_video          *)
(*                 (services/material/base.py)                             *)
(*                                                                         *)
(* Every coroutine is cut at its await points: one action is the code that *)
(* runs between two suspensions of the event loop.                         *)
(***************************************************************************)
EXTENDS Integers, Sequences, FiniteSets, Bags, TLC

(***************************************************************************)
(* Bounds of the model.                                                    *)
(***************************************************************************)
MaxNames == 2      \* distinct task names (input seeds) that are submitted
MaxJobs == 2       \* process_task executions created in one behaviour
MaxCancels == 1    \* concurrent handlers of POST /{task_id}/cancel
MaxRuns == 2       \* pipeline invocations on the one working directory
MaxItems == 3      \* candidates in one search result
MaxUrls == 2       \* distinct candidate URLs
MaxResults == 2    \* candidates one search answers with
MaxRequests == 3   \* clips requested from the material stage in one run
MaxHelpers == 2    \* helpers of the all-sources aggregator
MaxPages == 2      \* helper.max_page
MaxTerms == 2      \* search terms of one request
MaxParagraphs == 2 \* paragraphs of the transcript handed to _process_videos
MaxClips == 3      \* largest num_clips of an effect plan entry

(***************************************************************************)
(* Program constants.                                                      *)
(***************************************************************************)
max_concurrent_tasks == 1      \* utils/config.py: MAX_CONCURRENT_TASKS default
task_timeout_seconds == 600    \* utils/config.py: TASK_TIMEOUT default

VARIABLES
    db,          \* table "tasks": sequence of rows, index = Task.id
    jobs,        \* asyncio.Task objects created for process_task, in creation order
    reg,         \* TaskService._background_tasks : task id -> job (NoJob: no entry)
    running,     \* TaskService._running_tasks
    permits,     \* TaskService._semaphore._value
    waiters,     \* FIFO of jobs blocked in TaskService._semaphore.acquire()
    creq,        \* suspended handlers of cancel_task: a bag of their frames
    resp,        \* status code of the last response cancel_task has sent
    stopped,     \* the lifespan has left its yield (process teardown)
    \* --- one working directory and the pipeline invocations on it
    inp,         \* the TaskCreate of the invocations and the state of the upload
    fs,          \* content of each checkpoint file of the working directory
    ppc,         \* position of the running generate_video coroutine ("idle": none)
    attempt,     \* loop counter of _get_search_terms
    calls,       \* external calls the current invocation has made, per capability
    ret,         \* how the last invocation ended
    prev,        \* how the invocation before it ended
    nruns,       \* invocations started
    \* --- one call of _find_closest_video
    video_items, \* the candidate list
    audio_length,\* the target duration, in half seconds
    urls,        \* URLs already used in this run
    closest,     \* the value returned ("pending": not yet called)
    \* --- the material stage of one run
    msource,     \* material_source: one helper, "both" or "all"
    n_helpers,   \* len(self.helpers)
    n_requests,  \* len(search_terms_list)
    cache,       \* ./cache_videos: state of the file of each URL
    idx,         \* index of the request being resolved
    hpos,        \* position in the helper order of this request
    page,        \* page asked for
    term,        \* index of the search term asked for
    murls,       \* the run's set of URLs already selected
    videos,      \* the resolved material list
    tried,       \* helpers tried so far for this request
    chosen,      \* candidate selected and not yet saved
    save_i,      \* index in the second loop of MaterialHelper.get_videos
    mpc,         \* position of the stage
    merror,      \* message of the exception the stage raised
    \* --- the reels expansion at the head of _process_videos
    video_type,    \* "reels" or another type
    search_terms,  \* one entry per paragraph (the entry stands for its term list)
    durations,     \* one audio length per paragraph
    effect_plan,   \* num_clips of each plan entry
    expanded       \* the two lists after the block ("pending": not yet run)

avars == <<db, jobs, reg, running, permits, waiters, creq, resp, stopped>>
pvars == <<inp, fs, ppc, attempt, calls, ret, prev, nruns>>
svars == <<video_items, audio_length, urls, closest>>
mvars == <<msource, n_helpers, n_requests, cache, idx, hpos, page, term, murls, videos,
           tried, chosen, save_i, mpc, merror>>
xvars == <<video_type, search_terms, durations, effect_plan, expanded>>
vars == <<avars, pvars, svars, mvars, xvars>>

(***************************************************************************)
(* Values.                                                                 *)
(***************************************************************************)
None == "None"                 \* Python None in a string column
NoTime == 0                    \* NULL in a DateTime column
NoJob == 0                     \* dict.get(task_id) is None

PENDING == "pending"
RUNNING == "running"
COMPLETED == "completed"
FAILED == "failed"
TIMEOUT == "timeout"
Terminal == {COMPLETED, FAILED, TIMEOUT}

CancelMessage == "Task was manually cancelled"
TimeoutMessage == "Task exceeded 600 second timeout limit"
\* str(e) of the exceptions generate_video lets escape
PipelineErrors == {"No video found", "Error generate audio"}

\* parse_url(url, doc_id) with doc_id = task id, joined with "_output.mp4"
OutputPaths == <<"output/0001/_output.mp4", "output/0002/_output.mp4",
                 "output/0003/_output.mp4", "output/0004/_output.mp4">>
OutputPath(t) == OutputPaths[t]

\* datetime.now() of a write: the instant is named by the job that commits and by
\* which of its writes it is (entering Running, or ending)
Now(j, status) == IF status = RUNNING THEN 2 * j - 1 ELSE 2 * j

Max(a, b) == IF a > b THEN a ELSE b
Min(S) == CHOOSE x \in S : \A y \in S : x <= y

(***************************************************************************)
(* crud.py                                                                 *)
(***************************************************************************)
NewTask(name) ==
    [name |-> name, status |-> PENDING, start_time |-> NoTime, end_time |-> NoTime,
     result |-> None, error_message |-> None]

\* select(Task).where(Task.name == name) ... .first()
FindByName(name) == {t \in DOMAIN db : db[t].name = name}

\* variant: every write stamps start_time
update_task_status_StampsStart(task, status, error_message, result, now) ==
    [task EXCEPT
        !.status = status,
        !.start_time = now,
        !.end_time = IF status = RUNNING THEN NoTime ELSE now,
        !.result = result,
        !.error_message = error_message]

update_task_status(task, status, error_message, result, now) ==
    [task EXCEPT
        !.status = status,
        !.start_time = IF status = RUNNING THEN now ELSE @,
        !.end_time = IF status = RUNNING THEN NoTime ELSE now,
        !.result = result,
        !.error_message = error_message]

(***************************************************************************)
(* Positions of a process_task coroutine.                                  *)
(***************************************************************************)
WritePcs == {"w_running", "w_completed", "w_cancelled", "w_timeout", "w_failed"}
\* positions inside "async with cls._semaphore"
SlotPcs == {"pipeline"} \cup WritePcs
\* positions inside the inner try of lines 33-39
InnerTryPcs == {"pipeline", "w_completed"}

NewJob(t) ==
    [task |-> t, pc |-> "created", must_cancel |-> FALSE, landed |-> FALSE,
     result |-> None, error |-> None]

\* the asyncio.Task is done(); its frame and locals are gone
Finished(t) == [NewJob(t) EXCEPT !.pc = "done"]

Done(j) == jobs[j].pc = "done"



AInit ==
    /\ db = <<>>
    /\ jobs = <<>>
    /\ reg = [t \in 1..MaxNames |-> NoJob]
    /\ running = 0
    /\ permits = max_concurrent_tasks
    /\ waiters = <<>>
    /\ creq = EmptyBag
    /\ resp = None
    /\ stopped = FALSE

(***************************************************************************)
(* router.create_task: crud.create_task, asyncio.create_task, registry     *)
(***************************************************************************)
Submit(name) ==
    /\ ~stopped
    /\ Len(jobs) < MaxJobs
    /\ name <= Len(db) + 1
    /\ LET found == FindByName(name)
           t == IF found # {} THEN Min(found) ELSE Len(db) + 1
       IN /\ db' = IF found # {} THEN db ELSE Append(db, NewTask(name))
          /\ jobs' = Append(jobs, NewJob(t))
          /\ reg' = [reg EXCEPT ![t] = Len(jobs) + 1]
    /\ UNCHANGED <<running, permits, waiters, creq, resp, stopped, pvars, svars, mvars, xvars>>

(***************************************************************************)
(* TaskService.cleanup_task and the exits of process_task                  *)
(***************************************************************************)
\* variant: the decrement is not clamped
cleanup_running_Unclamped(n) == n - 1

cleanup_running(n) == Max(0, n - 1)

cleanup_registry(r, t) == [r EXCEPT ![t] = NoJob]

\* variant: the permit is not given back
ExitWithSlot_KeepsPermit(j) ==
    /\ permits' = permits
    /\ reg' = cleanup_registry(reg, jobs[j].task)
    /\ running' = cleanup_running(running)
    /\ jobs' = [jobs EXCEPT ![j] = Finished(jobs[j].task)]

\* leaving "async with cls._semaphore" (release) and then the finally block
ExitWithSlot(j) ==
    /\ permits' = permits + 1
    /\ reg' = cleanup_registry(reg, jobs[j].task)
    /\ running' = cleanup_running(running)
    /\ jobs' = [jobs EXCEPT ![j] = Finished(jobs[j].task)]

\* first step of the coroutine: try, async with semaphore; with a free permit it
\* runs on to the awaits of crud.get_task and of the commit of RUNNING (lines 30-31)
Start(j) ==
    /\ j \in DOMAIN jobs
    /\ jobs[j].pc = "created"
    /\ ~jobs[j].must_cancel
    /\ IF permits > 0 /\ waiters = <<>>
       THEN /\ permits' = permits - 1
            /\ running' = running + 1
            /\ jobs' = [jobs EXCEPT ![j].pc = "w_running"]
            /\ UNCHANGED waiters
       ELSE /\ waiters' = Append(waiters, j)
            /\ jobs' = [jobs EXCEPT ![j].pc = "wait_slot"]
            /\ UNCHANGED <<permits, running>>
    /\ UNCHANGED <<db, reg, creq, resp, stopped, pvars, svars, mvars, xvars>>

\* a released permit wakes the first waiter, which then runs on as in Start
Acquire(j) ==
    /\ j \in DOMAIN jobs
    /\ jobs[j].pc = "wait_slot"
    /\ ~jobs[j].must_cancel
    /\ permits > 0
    /\ waiters # <<>> /\ Head(waiters) = j
    /\ waiters' = Tail(waiters)
    /\ permits' = permits - 1
    /\ running' = running + 1
    /\ jobs' = [jobs EXCEPT ![j].pc = "w_running"]
    /\ UNCHANGED <<db, reg, creq, resp, stopped, pvars, svars, mvars, xvars>>

\* the row a pending write commits
WriteRow(j) ==
    LET t == jobs[j].task
        pc == jobs[j].pc
    IN CASE pc = "w_running" -> update_task_status(db[t], RUNNING, None, None, Now(j, RUNNING))
         [] pc = "w_completed" -> update_task_status(db[t], COMPLETED, None, jobs[j].result, Now(j, COMPLETED))
         [] pc = "w_cancelled" -> update_task_status(db[t], FAILED, CancelMessage, None, Now(j, FAILED))
         [] pc = "w_timeout" -> update_task_status(db[t], TIMEOUT, TimeoutMessage, None, Now(j, TIMEOUT))
         [] pc = "w_failed" -> update_task_status(db[t], FAILED, jobs[j].error, None, Now(j, FAILED))

\* session.commit() reaches the database (the coroutine is still suspended; the
\* commit of an await that was cancelled may still land)
Commit(j) ==
    /\ j \in DOMAIN jobs
    /\ jobs[j].pc \in WritePcs
    /\ ~jobs[j].landed
    /\ db' = [db EXCEPT ![jobs[j].task] = WriteRow(j)]
    /\ jobs' = [jobs EXCEPT ![j].landed = TRUE]
    /\ UNCHANGED <<reg, running, permits, waiters, creq, resp, stopped, pvars, svars, mvars, xvars>>

\* the coroutine resumes after its commit
Resume(j) ==
    /\ j \in DOMAIN jobs
    /\ jobs[j].pc \in WritePcs
    /\ jobs[j].landed
    /\ ~jobs[j].must_cancel
    /\ IF jobs[j].pc = "w_running"
       THEN /\ jobs' = [jobs EXCEPT ![j].pc = "pipeline", ![j].landed = FALSE]
            /\ UNCHANGED <<reg, running, permits>>
       ELSE ExitWithSlot(j)
    /\ UNCHANGED <<db, waiters, creq, resp, stopped, pvars, svars, mvars, xvars>>

(***************************************************************************)
(* asyncio.wait_for(url2video(...), timeout)                               *)
(***************************************************************************)
\* generate_video returns files.output if it exists, else None
PipelineResults(t) == {OutputPath(t), None}

PipelineReturn(j, r) ==
    /\ j \in DOMAIN jobs
    /\ jobs[j].pc = "pipeline"
    /\ ~jobs[j].must_cancel
    /\ r \in PipelineResults(jobs[j].task)
    /\ jobs' = [jobs EXCEPT ![j].pc = "w_completed", ![j].result = r, ![j].landed = FALSE]
    /\ UNCHANGED <<db, reg, running, permits, waiters, creq, resp, stopped, pvars, svars, mvars, xvars>>

PipelineRaise(j, e) ==
    /\ j \in DOMAIN jobs
    /\ jobs[j].pc = "pipeline"
    /\ ~jobs[j].must_cancel
    /\ e \in PipelineErrors
    /\ jobs' = [jobs EXCEPT ![j].pc = "w_failed", ![j].error = e, ![j].landed = FALSE]
    /\ UNCHANGED <<db, reg, running, permits, waiters, creq, resp, stopped, pvars, svars, mvars, xvars>>

PipelineTimeout(j) ==
    /\ j \in DOMAIN jobs
    /\ jobs[j].pc = "pipeline"
    /\ ~jobs[j].must_cancel
    /\ jobs' = [jobs EXCEPT ![j].pc = "w_timeout", ![j].landed = FALSE]
    /\ UNCHANGED <<db, reg, running, permits, waiters, creq, resp, stopped, pvars, svars, mvars, xvars>>

(***************************************************************************)
(* asyncio.Task.cancel(): CancelledError is thrown at the await the job is *)
(* suspended in, the next time the event loop steps it                     *)
(***************************************************************************)
task_cancel(js, j) ==
    IF j # NoJob /\ js[j].pc # "done" THEN [js EXCEPT ![j].must_cancel = TRUE] ELSE js

Deliver(j) ==
    /\ j \in DOMAIN jobs
    /\ jobs[j].must_cancel
    /\ jobs[j].pc # "done"
    /\ CASE jobs[j].pc = "created" ->
              \* thrown into a coroutine that has not entered its try: no finally
              /\ jobs' = [jobs EXCEPT ![j] = Finished(jobs[j].task)]
              /\ UNCHANGED <<reg, running, permits, waiters>>
         [] jobs[j].pc = "wait_slot" ->
              \* acquire() is abandoned; the finally block runs cleanup_task
              /\ waiters' = SelectSeq(waiters, LAMBDA w : w # j)
              /\ reg' = cleanup_registry(reg, jobs[j].task)
              /\ running' = cleanup_running(running)
              /\ jobs' = [jobs EXCEPT ![j] = Finished(jobs[j].task)]
              /\ UNCHANGED permits
         [] jobs[j].pc \in InnerTryPcs ->
              \* except asyncio.CancelledError: update_task_status(FAILED, ...)
              /\ jobs' = [jobs EXCEPT ![j].pc = "w_cancelled", ![j].must_cancel = FALSE,
                                      ![j].landed = FALSE]
              /\ UNCHANGED <<reg, running, permits, waiters>>
         [] OTHER ->
              \* outside the inner try, or inside one of its handlers
              /\ ExitWithSlot(j)
              /\ UNCHANGED waiters
    /\ UNCHANGED <<db, creq, resp, stopped, pvars, svars, mvars, xvars>>

(***************************************************************************)
(* router.cancel_task                                                      *)
(***************************************************************************)
\* A handler is suspended twice: in crud.get_task ("check": the row has been read
\* and the handler has not resumed) and in "await background_task" ("await").
\* When the row read is missing or not RUNNING the rest of the handler touches no
\* shared state, so the read and the response are one step.
Frame(pc, t, j) == [pc |-> pc, task |-> t, job |-> j]

Handlers == BagToSet(creq)

\* status the SELECT of crud.get_task(session, task_id) returns
get_status(t) == IF t \in DOMAIN db THEN db[t].status ELSE "missing"

\* variant: only a task that has not started is refused
CancelRefused_PendingOnly(status) ==
    IF status = "missing" THEN "404"
    ELSE IF status = PENDING THEN "400"
    ELSE "pass"

\* HTTPException(404) / HTTPException(400): lines 68-72
CancelRefused(status) ==
    IF status = "missing" THEN "404"
    ELSE IF status # RUNNING THEN "400"
    ELSE "pass"

\* the request is answered with 404 or 400
CancelReject(t) ==
    /\ ~stopped
    /\ t \in 1..MaxNames
    /\ CancelRefused(get_status(t)) # "pass"
    /\ resp' = CancelRefused(get_status(t))
    /\ UNCHANGED <<db, jobs, reg, running, permits, waiters, creq, stopped, pvars, svars, mvars, xvars>>

\* the request arrives and the SELECT reads a RUNNING row
CancelBegin(t) ==
    /\ ~stopped
    /\ BagCardinality(creq) < MaxCancels
    /\ t \in 1..MaxNames
    /\ CancelRefused(get_status(t)) = "pass"
    /\ creq' = creq (+) SetToBag({Frame("check", t, NoJob)})
    /\ UNCHANGED <<db, jobs, reg, running, permits, waiters, resp, stopped, pvars, svars, mvars, xvars>>

\* the handler resumes: the registry lookup, cancel(), await (lines 74-80)
CancelCheck(h) ==
    /\ h \in Handlers
    /\ h.pc = "check"
    /\ LET bt == reg[h.task]
       IN IF bt # NoJob /\ ~Done(bt)
          THEN /\ jobs' = task_cancel(jobs, bt)
               /\ creq' = (creq (-) SetToBag({h})) (+) SetToBag({Frame("await", h.task, bt)})
               /\ UNCHANGED resp
          ELSE /\ creq' = creq (-) SetToBag({h})
               /\ resp' = "200"
               /\ UNCHANGED jobs
    /\ UNCHANGED <<db, reg, running, permits, waiters, stopped, pvars, svars, mvars, xvars>>

\* "await background_task" ends with CancelledError, which is swallowed
CancelReturn(h) ==
    /\ h \in Handlers
    /\ h.pc = "await"
    /\ Done(h.job)
    /\ creq' = creq (-) SetToBag({h})
    /\ resp' = "200"
    /\ UNCHANGED <<db, jobs, reg, running, permits, waiters, stopped, pvars, svars, mvars, xvars>>

(***************************************************************************)
(* app.lifespan teardown: TaskService.cancel_all_background_tasks          *)
(***************************************************************************)
RECURSIVE cancel_all(_, _)
cancel_all(js, ts) ==
    IF ts = {} THEN js
    ELSE LET t == CHOOSE x \in ts : TRUE
         IN cancel_all(task_cancel(js, reg[t]), ts \ {t})

cancel_all_background_tasks ==
    /\ ~stopped
    /\ stopped' = TRUE
    /\ jobs' = cancel_all(jobs, {t \in DOMAIN reg : reg[t] # NoJob})
    /\ UNCHANGED <<db, reg, running, permits, waiters, creq, resp, pvars, svars, mvars, xvars>>

(***************************************************************************)
(* services/video.py: the checkpointed pipeline on one working directory   *)
(***************************************************************************)
\* ProcessingFiles, plus the analysis checkpoint of the upload mode
Checkpoints ==
    <<"analysis", "html", "draft", "script", "effects", "durations", "terms",
      "videos", "output", "meta">>
Files == {Checkpoints[i] : i \in DOMAIN Checkpoints}

\* what a file holds: nothing on disk, zero bytes, one of the bridge's error
\* texts, text that does not parse as what the stage expects, or a good value
Contents == {"missing", "empty", "marker", "invalid", "valid"}

\* os.path.exists(path)
Exists(f) == fs[f] # "missing"

\* capabilities outside the process
Capabilities == {"fetch", "llm", "tts", "search", "ffmpeg"}
NoCalls == [c \in Capabilities |-> 0]
Called(c, n) == calls' = [calls EXCEPT ![c] = @ + n]
TotalCalls ==
    calls["fetch"] + calls["llm"] + calls["tts"] + calls["search"] + calls["ffmpeg"]

\* TaskCreate fields the control flow reads, and os.path.exists(video_upload_path)
Inputs ==
    {[mode |-> "url", src |-> s, auto |-> a, upload_exists |-> FALSE] :
        s \in {"http", "yuanbao", "text"}, a \in BOOLEAN}
    \cup {[mode |-> "upload", src |-> "text", auto |-> a, upload_exists |-> u] :
        a \in BOOLEAN, u \in BOOLEAN}

NoRun == [kind |-> "none", val |-> None]
Return(v) == ppc' = "idle" /\ ret' = [kind |-> "return", val |-> v]
Raise(e) == ppc' = "idle" /\ ret' = [kind |-> "raise", val |-> e]

\* the first k checkpoints are on disk and good
PrefixDir(k) ==
    [f \in Files |->
        IF \E i \in 1..k : Checkpoints[i] = f THEN "valid" ELSE "missing"]
\* directories an earlier invocation, killed or failed anywhere, can leave
InitDirs ==
    {[PrefixDir(k) EXCEPT ![f] = c] :
        k \in 0..Len(Checkpoints), f \in Files, c \in Contents}

PIdle ==
    /\ inp = [mode |-> "url", src |-> "text", auto |-> FALSE, upload_exists |-> FALSE]
    /\ fs = PrefixDir(0)
    /\ ppc = "idle"
    /\ attempt = 0
    /\ calls = NoCalls
    /\ ret = NoRun
    /\ prev = NoRun
    /\ nruns = 0

PInit ==
    /\ inp \in Inputs
    /\ fs \in InitDirs
    /\ ppc = "idle"
    /\ attempt = 0
    /\ calls = NoCalls
    /\ ret = NoRun
    /\ prev = NoRun
    /\ nruns = 0

\* a stage that reads its own checkpoint with json.load
LoadOr(f, next) ==
    IF fs[f] = "valid" THEN ppc' = next /\ UNCHANGED ret
    ELSE Raise("JSONDecodeError")

\* variant: no early return when the output checkpoint exists
generate_video_NoEarlyReturn ==
    /\ ppc = "idle"
    /\ nruns < MaxRuns
    /\ nruns' = nruns + 1
    /\ prev' = ret
    /\ calls' = NoCalls
    /\ attempt' = 0
    /\ IF inp.mode = "upload" /\ ~inp.upload_exists
         THEN Raise("Upload video not found")
         ELSE /\ ret' = NoRun
              /\ ppc' = IF Exists("script") THEN "load"
                        ELSE IF inp.mode = "upload" THEN "analyze"
                        ELSE IF inp.auto THEN "auto_select"
                        ELSE "content"
    /\ UNCHANGED <<inp, fs, avars, svars, mvars, xvars>>

\* generate_video / generate_video_from_upload up to the first await
generate_video ==
    /\ ppc = "idle"
    /\ nruns < MaxRuns
    /\ nruns' = nruns + 1
    /\ prev' = ret
    /\ calls' = NoCalls
    /\ attempt' = 0
    /\ IF inp.mode = "upload" /\ ~inp.upload_exists
         THEN Raise("Upload video not found")
         ELSE IF Exists("output")
           THEN Return(OutputPath(1))
           ELSE /\ ret' = NoRun
                /\ ppc' = IF Exists("script") THEN "load"
                          ELSE IF inp.mode = "upload" THEN "analyze"
                          ELSE IF inp.auto THEN "auto_select"
                          ELSE "content"
    /\ UNCHANGED <<inp, fs, avars, svars, mvars, xvars>>

\* _auto_select_prompt: any failure of the LLM falls back to a default style
auto_select_prompt ==
    /\ ppc \in {"auto_select", "reselect"}
    /\ Called("llm", 1)
    /\ ppc' = IF inp.mode = "upload" \/ ppc = "reselect" THEN "draft" ELSE "content"
    /\ UNCHANGED <<inp, fs, attempt, ret, prev, nruns, avars, svars, mvars, xvars>>

\* _analyze_uploaded_video: ffmpeg frames and an LLM description, kept as text
analyze_uploaded_video(o) ==
    /\ ppc = "analyze"
    /\ IF Exists("analysis")
         THEN /\ IF fs["analysis"] = "empty"
                   THEN Raise("Failed to analyze uploaded video")
                   ELSE ppc' = (IF inp.auto THEN "auto_select" ELSE "draft")
                        /\ UNCHANGED ret
              /\ UNCHANGED <<fs, calls>>
         ELSE /\ calls' = [calls EXCEPT !["ffmpeg"] = @ + 1, !["llm"] = @ + 1]
              /\ IF o = "valid"
                   THEN /\ fs' = [fs EXCEPT !["analysis"] = "valid"]
                        /\ ppc' = (IF inp.auto THEN "auto_select" ELSE "draft")
                        /\ UNCHANGED ret
                   ELSE /\ Raise("Failed to analyze uploaded video")
                        /\ UNCHANGED fs
    /\ UNCHANGED <<inp, attempt, prev, nruns, avars, svars, mvars, xvars>>

\* position after the content is known: lines 599-603 select the style again
AfterContent == IF inp.auto /\ inp.src = "http" THEN "reselect" ELSE "draft"

\* _get_content_from_source and the check of its result by the caller
get_content_from_source(o) ==
    /\ ppc = "content"
    /\ IF Exists("html")
         THEN /\ IF fs["html"] = "empty"
                   THEN Raise("Failed to fetch content from source")
                   ELSE ppc' = AfterContent /\ UNCHANGED ret
              /\ UNCHANGED <<fs, calls>>
         ELSE CASE inp.src = "text" ->
                   /\ fs' = [fs EXCEPT !["html"] = "valid"]
                   /\ ppc' = AfterContent
                   /\ UNCHANGED <<ret, calls>>
                [] inp.src = "http" ->
                   /\ o \in {"valid", "empty"}
                   /\ Called("fetch", 1)
                   /\ IF o = "valid"
                        THEN /\ fs' = [fs EXCEPT !["html"] = "valid"]
                             /\ ppc' = AfterContent
                             /\ UNCHANGED ret
                        ELSE /\ Raise("Failed to fetch content from source")
                             /\ UNCHANGED fs
                [] inp.src = "yuanbao" ->
                   /\ o \in {"valid", "marker", "empty", "raise"}
                   /\ Called("llm", 1)
                   /\ CASE o \in {"valid", "marker"} ->
                             /\ fs' = [fs EXCEPT !["html"] = o]
                             /\ ppc' = AfterContent
                             /\ UNCHANGED ret
                        [] o = "empty" ->
                             /\ fs' = [fs EXCEPT !["html"] = "empty"]
                             /\ Raise("Failed to fetch content from source")
                        [] o = "raise" ->
                             /\ Raise("APIError")
                             /\ UNCHANGED fs
    /\ UNCHANGED <<inp, attempt, prev, nruns, avars, svars, mvars, xvars>>

\* _generate_transcript and the check of its result by the caller
generate_transcript(o) ==
    /\ ppc = "draft"
    /\ IF Exists("draft") /\ fs["draft"] # "marker"
         THEN /\ IF fs["draft"] = "empty"
                   THEN Raise("Failed to generate transcript")
                   ELSE ppc' = "final" /\ UNCHANGED ret
              /\ UNCHANGED <<fs, calls>>
         ELSE /\ Called("llm", 1)
              /\ IF o = "valid"
                   THEN /\ fs' = [fs EXCEPT !["draft"] = "valid"]
                        /\ ppc' = "final"
                        /\ UNCHANGED ret
                   ELSE \* None, or a bridge error text: nothing is written
                        /\ fs' = [fs EXCEPT !["draft"] = "missing"]
                        /\ Raise("Failed to generate transcript")
    /\ UNCHANGED <<inp, attempt, prev, nruns, avars, svars, mvars, xvars>>

\* what _generate_final_transcript makes of a non-empty answer
ParsedAnswer(o) == IF o = "valid" THEN "valid" ELSE None

\* _generate_final_transcript, first request (response_format json_object)
generate_final_transcript(o) ==
    /\ ppc = "final"
    /\ Called("llm", 1)
    /\ IF o = "none"
         THEN ppc' = "final_retry" /\ UNCHANGED <<fs, ret>>
         ELSE IF ParsedAnswer(o) = None
           THEN Raise("Failed to generate final transcript") /\ UNCHANGED fs
           ELSE /\ fs' = [fs EXCEPT !["script"] = "valid"]
                /\ ppc' = "load"
                /\ UNCHANGED ret
    /\ UNCHANGED <<inp, attempt, prev, nruns, avars, svars, mvars, xvars>>

\* _generate_final_transcript, second request (no response_format)
generate_final_transcript_retry(o) ==
    /\ ppc = "final_retry"
    /\ Called("llm", 1)
    /\ IF o = "none" \/ ParsedAnswer(o) = None
         THEN Raise("Failed to generate final transcript") /\ UNCHANGED fs
         ELSE /\ fs' = [fs EXCEPT !["script"] = "valid"]
              /\ ppc' = "load"
              /\ UNCHANGED ret
    /\ UNCHANGED <<inp, attempt, prev, nruns, avars, svars, mvars, xvars>>

\* json.loads(self._read_file(files.script)) and _convert_to_transcript
load_transcript ==
    /\ ppc = "load"
    /\ LoadOr("script", "effects")
    /\ UNCHANGED <<inp, fs, attempt, calls, prev, nruns, avars, svars, mvars, xvars>>

\* _plan_effects: an unusable answer of the LLM is replaced by the defaults
plan_effects ==
    /\ ppc = "effects"
    /\ IF Exists("effects")
         THEN LoadOr("effects", "audio") /\ UNCHANGED <<fs, calls>>
         ELSE /\ Called("llm", 1)
              /\ fs' = [fs EXCEPT !["effects"] = "valid"]
              /\ ppc' = "audio"
              /\ UNCHANGED ret
    /\ UNCHANGED <<inp, attempt, prev, nruns, avars, svars, mvars, xvars>>

\* variant: the durations checkpoint is not consulted
process_audio_NoCache(o) ==
    /\ ppc = "audio"
    /\ Called("tts", 1)
    /\ IF o = "valid"
         THEN /\ fs' = [fs EXCEPT !["durations"] = "valid"]
              /\ ppc' = "videos"
              /\ UNCHANGED ret
         ELSE Raise("Error generate audio") /\ UNCHANGED fs
    /\ UNCHANGED <<inp, attempt, prev, nruns, avars, svars, mvars, xvars>>

\* _process_audio: text_to_speech raises once a dialogue has used its retries
process_audio(o) ==
    /\ ppc = "audio"
    /\ IF Exists("durations")
         THEN LoadOr("durations", "videos") /\ UNCHANGED <<fs, calls>>
         ELSE /\ Called("tts", 1)
              /\ IF o = "valid"
                   THEN /\ fs' = [fs EXCEPT !["durations"] = "valid"]
                        /\ ppc' = "videos"
                        /\ UNCHANGED ret
                   ELSE Raise("Error generate audio") /\ UNCHANGED fs
    /\ UNCHANGED <<inp, attempt, prev, nruns, avars, svars, mvars, xvars>>

\* head of _process_videos / _create_clips_from_upload, head of _get_search_terms
process_videos ==
    /\ ppc = "videos"
    /\ IF Exists("videos")
         THEN LoadOr("videos", "compose")
         ELSE IF inp.mode = "upload"
           THEN ppc' = "clips" /\ UNCHANGED ret
           ELSE IF Exists("terms")
             THEN LoadOr("terms", "material")
             ELSE ppc' = "terms" /\ UNCHANGED ret
    /\ UNCHANGED <<inp, fs, attempt, calls, prev, nruns, avars, svars, mvars, xvars>>

max_retries == 3

\* one pass of the loop of _get_search_terms
get_search_terms(o) ==
    /\ ppc = "terms"
    /\ Called("llm", 1)
    /\ CASE o = "valid" ->
              /\ fs' = [fs EXCEPT !["terms"] = "valid"]
              /\ ppc' = "material"
              /\ UNCHANGED <<ret, attempt>>
         [] o = "none" ->     \* re.search(pattern, None)
              /\ Raise("TypeError")
              /\ UNCHANGED <<fs, attempt>>
         [] OTHER ->
              /\ attempt' = attempt + 1
              /\ IF attempt + 1 = max_retries
                   THEN Raise("Number of search terms does not match number of dialogues")
                   ELSE UNCHANGED <<ppc, ret>>
              /\ UNCHANGED fs
    /\ UNCHANGED <<inp, prev, nruns, avars, svars, mvars, xvars>>

\* rest of _process_videos: search and download one clip per paragraph
get_videos(o) ==
    /\ ppc = "material"
    /\ Called("search", 1)
    /\ IF o = "valid"
         THEN /\ fs' = [fs EXCEPT !["videos"] = "valid"]
              /\ ppc' = "compose"
              /\ UNCHANGED ret
         ELSE Raise("No video found") /\ UNCHANGED fs
    /\ UNCHANGED <<inp, attempt, prev, nruns, avars, svars, mvars, xvars>>

\* rest of _create_clips_from_upload: ffprobe and one ffmpeg cut per paragraph
create_clips_from_upload ==
    /\ ppc = "clips"
    /\ Called("ffmpeg", 1)
    /\ fs' = [fs EXCEPT !["videos"] = "valid"]
    /\ ppc' = "compose"
    /\ UNCHANGED <<inp, attempt, ret, prev, nruns, avars, svars, mvars, xvars>>

\* utils.video.create_video: merge_videos only logs a failure of ffmpeg
create_video(o) ==
    /\ ppc = "compose"
    /\ Called("ffmpeg", 1)
    /\ CASE o = "valid" ->
              /\ fs' = [fs EXCEPT !["output"] = "valid"]
              /\ ppc' = "meta"
              /\ UNCHANGED ret
         [] o = "none" ->     \* ffmpeg failed, no file
              /\ ppc' = "meta"
              /\ UNCHANGED <<fs, ret>>
         [] o = "invalid" ->  \* ffmpeg failed, truncated file
              /\ fs' = [fs EXCEPT !["output"] = "invalid"]
              /\ ppc' = "meta"
              /\ UNCHANGED ret
         [] OTHER ->
              /\ Raise("create_video failed")
              /\ UNCHANGED fs
    /\ UNCHANGED <<inp, attempt, prev, nruns, avars, svars, mvars, xvars>>

\* _generate_youtube_meta (its failures are swallowed) and the return
generate_youtube_meta ==
    /\ ppc = "meta"
    /\ IF Exists("meta")
         THEN UNCHANGED <<fs, calls>>
         ELSE Called("llm", 1) /\ fs' = [fs EXCEPT !["meta"] = "valid"]
    /\ Return(IF Exists("output") THEN OutputPath(1) ELSE None)
    /\ UNCHANGED <<inp, attempt, prev, nruns, avars, svars, mvars, xvars>>

\* CancelledError thrown into the coroutine at the await it is suspended in, by
\* Task.cancel() or by the deadline of asyncio.wait_for
cancel_pipeline ==
    /\ ppc # "idle"
    /\ ppc' = "idle"
    /\ ret' = [kind |-> "cancelled", val |-> None]
    /\ UNCHANGED <<inp, fs, attempt, calls, prev, nruns, avars, svars, mvars, xvars>>

\* answers of an external capability
Outcomes == {"valid", "none", "invalid", "marker", "empty", "raise"}

(***************************************************************************)
(* services/material/base.py: _find_closest_video                          *)
(* Durations are counted in half seconds, so that audio_length + 1 is      *)
(* a + 2 and  d < audio_length * 1.5 + 1  is  2 * d < 3 * a + 4.           *)
(***************************************************************************)
Durations == {8, 13, 14, 18}       \* 4.0 s, 6.5 s, 7.0 s, 9.0 s
Targets == {10, 12}                \* 5.0 s, 6.0 s
MaterialInfos == [url : 1..MaxUrls, duration : Durations]
NoVideo == [url |-> 0, duration |-> 0]     \* the function returns None
Inf == 1000000                             \* float("inf")

RECURSIVE SeqsUpTo(_, _)
SeqsUpTo(S, n) ==
    IF n = 0 THEN {<<>>}
    ELSE LET shorter == SeqsUpTo(S, n - 1)
         IN shorter \cup {Append(s, x) : s \in {q \in shorter : Len(q) = n - 1}, x \in S}

\* variant: the used set is ignored
Eligible_Always(video, used) == TRUE

\* if video.url in urls: continue
Eligible(video, used) == video.url \notin used
AboveTarget(video, a) == video.duration > a + 2
\* variant: the window has no lower end
InWindow_NoLowerEnd(video, a) == 2 * video.duration < 3 * a + 4

\* audio_length + 1 < video.duration < audio_length * 1.5 + 1
InWindow(video, a) == a + 2 < video.duration /\ 2 * video.duration < 3 * a + 4

\* first loop: smallest overshoot among the eligible candidates above target + 1
RECURSIVE best_fit_above(_, _, _, _, _, _)
best_fit_above(items, a, used, i, closest_video, min_diff) ==
    IF i > Len(items) THEN closest_video
    ELSE LET video == items[i]
             diff == video.duration - a
         IN IF Eligible(video, used) /\ AboveTarget(video, a) /\ diff < min_diff
              THEN best_fit_above(items, a, used, i + 1, video, diff)
              ELSE best_fit_above(items, a, used, i + 1, closest_video, min_diff)

\* second loop: the first eligible candidate inside the window replaces it
RECURSIVE first_acceptable(_, _, _, _, _)
first_acceptable(items, a, used, i, closest_video) ==
    IF i > Len(items) THEN closest_video
    ELSE LET video == items[i]
         IN IF Eligible(video, used) /\ InWindow(video, a)
              THEN video
              ELSE first_acceptable(items, a, used, i + 1, closest_video)

find_closest_video(items, a, used) ==
    first_acceptable(items, a, used, 1,
                     best_fit_above(items, a, used, 1, NoVideo, Inf))

Pending == [state |-> "pending", video |-> NoVideo]

SIdle ==
    /\ video_items = <<>>
    /\ audio_length = 0
    /\ urls = {}
    /\ closest = Pending

SInit ==
    /\ video_items \in SeqsUpTo(MaterialInfos, MaxItems)
    /\ audio_length \in Targets
    /\ urls \in SUBSET (1..MaxUrls)
    /\ closest = Pending

FindClosest ==
    /\ closest = Pending
    /\ closest' = [state |-> "returned",
                   video |-> find_closest_video(video_items, audio_length, urls)]
    /\ UNCHANGED <<video_items, audio_length, urls, avars, pvars, mvars, xvars>>

(***************************************************************************)
(* Material resolution of one run: MaterialHelper.get_videos (one helper), *)
(* the "both" branch of _process_videos and MultiSourceAggregator          *)
(* .get_videos, with the clip cache of save_video.                         *)
(***************************************************************************)
MDurations == {14}                 \* 7.0 s: inside the window of the target
MTarget == 10                      \* audio_length of every request: 5.0 s
MCandidates == [url : 1..MaxUrls, duration : MDurations]
SearchResults == SeqsUpTo(MCandidates, MaxResults)

\* what the cache file of a URL holds
CacheStates == {"missing", "empty", "unplayable", "playable"}

\* helper.max_page as the loops use it; the "both" branch asks for page 1 only
max_page(source) == IF source = "both" THEN 1 ELSE MaxPages

\* variant: helpers are always tried from the first one
Order_NoRotation(i, n) == [k \in 1..n |-> k - 1]

\* order = list(range(n)); start = idx % n; order[start:] + order[:start]
Order(i, n) ==
    LET range == [k \in 1..n |-> k - 1]
        start == i % n
    IN SubSeq(range, start + 1, n) \o SubSeq(range, 1, start)

\* helpers in the order they are tried for request i
HelperOrder(source, i, n) ==
    CASE source = "single" -> <<0>>
      [] source = "both" -> IF i % 2 = 0 THEN <<0, 1>> ELSE <<1, 0>>
      [] OTHER -> Order(i, n)

MInit ==
    /\ msource \in {"single", "both", "all"}
    /\ n_helpers \in 1..MaxHelpers
    /\ msource = "single" => n_helpers = 1
    /\ msource = "both" => n_helpers = 2
    /\ msource = "all" => n_helpers >= 2      \* the aggregator is built with several helpers
    /\ n_requests \in 1..MaxRequests
    /\ cache \in [1..MaxUrls -> CacheStates]
    /\ idx = 0
    /\ hpos = 1
    /\ page = 1
    /\ term = 1
    /\ murls = {}
    /\ videos = <<>>
    /\ tried = <<HelperOrder(msource, 0, n_helpers)[1]>>
    /\ chosen = NoVideo
    /\ save_i = 0
    /\ mpc = "search"
    /\ merror = None

MIdle ==
    /\ msource = "single"
    /\ n_helpers = 1
    /\ n_requests = 1
    /\ cache = [u \in 1..MaxUrls |-> "missing"]
    /\ idx = 0
    /\ hpos = 1
    /\ page = 1
    /\ term = 1
    /\ murls = {}
    /\ videos = <<>>
    /\ tried = <<>>
    /\ chosen = NoVideo
    /\ save_i = 0
    /\ mpc = "idle"
    /\ merror = None

\* the loops move on to the next request, or the list is complete
NextRequest(vs) ==
    /\ videos' = vs
    /\ chosen' = NoVideo
    /\ IF idx + 1 < n_requests
         THEN /\ idx' = idx + 1
              /\ hpos' = 1
              /\ page' = 1
              /\ term' = 1
              /\ tried' = <<HelperOrder(msource, idx + 1, n_helpers)[1]>>
              /\ mpc' = "search"
              /\ UNCHANGED <<save_i, merror>>
         ELSE /\ UNCHANGED <<idx, hpos, page, term, tried, merror>>
              /\ IF msource = "single"
                   THEN mpc' = "save" /\ save_i' = 1     \* second loop of get_videos
                   ELSE mpc' = "done" /\ UNCHANGED save_i

\* the next helper of the order, or the request has no material
NextHelper ==
    /\ UNCHANGED <<idx, videos, save_i>>
    /\ chosen' = NoVideo
    /\ IF hpos < Len(HelperOrder(msource, idx, n_helpers))
         THEN /\ hpos' = hpos + 1
              /\ page' = 1
              /\ term' = 1
              /\ tried' = Append(tried, HelperOrder(msource, idx, n_helpers)[hpos + 1])
              /\ mpc' = "search"
              /\ UNCHANGED merror
         ELSE /\ mpc' = "failed"
              /\ merror' = "No video found"
              /\ UNCHANGED <<hpos, page, term, tried>>

\* the next term, page or helper after a combination that gave nothing
NextCombination ==
    IF msource = "single"
      THEN \* for page: for search_term: ... else: raise ValueError("No video found")
           /\ UNCHANGED <<idx, hpos, tried, videos, save_i>>
           /\ chosen' = NoVideo
           /\ IF term < MaxTerms
                THEN term' = term + 1 /\ mpc' = "search" /\ UNCHANGED <<page, merror>>
                ELSE IF page < max_page(msource)
                  THEN page' = page + 1 /\ term' = 1 /\ mpc' = "search" /\ UNCHANGED merror
                  ELSE mpc' = "failed" /\ merror' = "No video found" /\ UNCHANGED <<page, term>>
      ELSE \* for page: for term: ...   inside   for helper_idx in order
           IF term < MaxTerms
             THEN /\ term' = term + 1
                  /\ mpc' = "search"
                  /\ chosen' = NoVideo
                  /\ UNCHANGED <<idx, hpos, page, tried, videos, save_i, merror>>
             ELSE IF page < max_page(msource)
               THEN /\ page' = page + 1
                    /\ term' = 1
                    /\ mpc' = "search"
                    /\ chosen' = NoVideo
                    /\ UNCHANGED <<idx, hpos, tried, videos, save_i, merror>>
               ELSE NextHelper

\* helper.search_videos(term, page) answers, then _find_closest_video
search_videos(items) ==
    /\ mpc = "search"
    /\ LET closest_video == find_closest_video(items, MTarget, murls)
       IN IF closest_video = NoVideo
            THEN NextCombination /\ UNCHANGED murls
            ELSE /\ murls' = murls \cup {closest_video.url}
                 /\ IF msource = "single"
                      THEN NextRequest(Append(videos, closest_video))
                      ELSE /\ chosen' = closest_video
                           /\ mpc' = "save"
                           /\ UNCHANGED <<idx, hpos, page, term, tried, videos, save_i, merror>>
    /\ UNCHANGED <<msource, n_helpers, n_requests, cache, avars, pvars, svars, xvars>>

\* an exception inside the try of the "both" branch or of the aggregator
helper_raises ==
    /\ mpc = "search"
    /\ msource # "single"
    /\ NextHelper
    /\ UNCHANGED <<murls, msource, n_helpers, n_requests, cache, avars, pvars, svars, xvars>>

\* MaterialHelper.save_video: the file left in the cache and the value returned
DownloadOutcomes == {"playable", "unreadable", "no_duration", "empty", "failed"}
CacheAfter(c, o) ==
    IF c \notin {"missing", "empty"} THEN c
    ELSE CASE o = "playable" -> "playable"
           [] o = "unreadable" -> "missing"      \* VideoFileClip raises: os.remove
           [] o = "no_duration" -> "unplayable"  \* duration or fps is 0: file stays
           [] o = "empty" -> "empty"
           [] OTHER -> "missing"                 \* download raised: os.remove
HasPath(c, o) ==
    IF c \notin {"missing", "empty"} THEN TRUE ELSE o = "playable"

\* the URL whose clip is being saved
SavingUrl == IF msource = "single" THEN videos[save_i].url ELSE chosen.url

save_video(o) ==
    /\ mpc = "save"
    /\ cache' = [cache EXCEPT ![SavingUrl] = CacheAfter(@, o)]
    /\ IF msource = "single"
         THEN /\ IF HasPath(cache[SavingUrl], o)
                   THEN IF save_i < Len(videos)
                          THEN save_i' = save_i + 1 /\ UNCHANGED <<mpc, merror>>
                          ELSE mpc' = "done" /\ UNCHANGED <<save_i, merror>>
                   ELSE mpc' = "failed" /\ merror' = "Video has no path" /\ UNCHANGED save_i
              /\ UNCHANGED <<idx, hpos, page, term, tried, videos, chosen>>
         ELSE IF HasPath(cache[SavingUrl], o)
                THEN NextRequest(Append(videos, chosen))
                ELSE NextCombination
    /\ UNCHANGED <<murls, msource, n_helpers, n_requests, avars, pvars, svars, xvars>>

(***************************************************************************)
(* services/video.py: the reels expansion of _process_videos               *)
(***************************************************************************)
\* audio lengths, in units of 1/12 s so that every dur / num_clips is exact
XDurations == {12, 24}
VideoTypes == {"reels", "short_content"}

RECURSIVE SumSeq(_)
SumSeq(q) == IF q = <<>> THEN 0 ELSE q[1] + SumSeq(Tail(q))

\* [x] * n
Repeat(x, n) == [k \in 1..n |-> x]

\* num_clips of paragraph i (1-based): 2 unless the plan has an entry for it
num_clips(plan, i) ==
    IF plan # <<>> /\ i <= Len(plan) THEN Max(2, plan[i]) ELSE 2

\* dur = durations[idx] if idx < len(durations) else durations[-1]
dur_of(durs, i) == IF i <= Len(durs) THEN durs[i] ELSE durs[Len(durs)]

\* the loop over enumerate(search_terms), from paragraph i on
RECURSIVE expand_from(_, _, _, _)
expand_from(terms, durs, plan, i) ==
    IF i > Len(terms) THEN [terms |-> <<>>, durations |-> <<>>]
    ELSE LET n == num_clips(plan, i)
             rest == expand_from(terms, durs, plan, i + 1)
         IN [terms |-> Repeat(terms[i], n) \o rest.terms,
             durations |-> Repeat(dur_of(durs, i) \div n, n) \o rest.durations]

\* while len(search_terms) < 3: append the last entry of both lists
RECURSIVE ensure_minimum(_)
ensure_minimum(e) ==
    IF Len(e.terms) < 3 /\ Len(e.terms) > 0
      THEN ensure_minimum([terms |-> Append(e.terms, e.terms[Len(e.terms)]),
                           durations |-> Append(e.durations, e.durations[Len(e.durations)])])
      ELSE e

expand_reels(type, terms, durs, plan) ==
    IF type = "reels"
      THEN ensure_minimum(expand_from(terms, durs, plan, 1))
      ELSE [terms |-> terms, durations |-> durs]

NotExpanded == [state |-> "pending", terms |-> <<>>, durations |-> <<>>]

XIdle ==
    /\ video_type = "short_content"
    /\ search_terms = <<>>
    /\ durations = <<>>
    /\ effect_plan = <<>>
    /\ expanded = NotExpanded

\* _get_search_terms and text_to_speech both answer with one entry per paragraph
XInit ==
    /\ video_type \in VideoTypes
    /\ \E n \in 1..MaxParagraphs :
          /\ search_terms = [i \in 1..n |-> i]
          /\ durations \in [1..n -> XDurations]
          /\ effect_plan \in SeqsUpTo(1..MaxClips, n)
    /\ expanded = NotExpanded

ExpandReels ==
    /\ expanded.state = "pending"
    /\ LET e == expand_reels(video_type, search_terms, durations, effect_plan)
       IN expanded' = [state |-> "done", terms |-> e.terms, durations |-> e.durations]
    /\ UNCHANGED <<video_type, search_terms, durations, effect_plan, avars, pvars, svars, mvars>>

(***************************************************************************)
(* The systems                                                       *)
(***************************************************************************)
Next ==
    \/ \E n \in 1..MaxNames : Submit(n)
    \/ \E j \in 1..MaxJobs : Start(j)
    \/ \E j \in 1..MaxJobs : Acquire(j)
    \/ \E j \in 1..MaxJobs : Commit(j)
    \/ \E j \in 1..MaxJobs : Resume(j)
    \/ \E j \in 1..MaxJobs : \E r \in {OutputPath(t) : t \in 1..MaxNames} \cup {None} : PipelineReturn(j, r)
    \/ \E j \in 1..MaxJobs : \E e \in PipelineErrors : PipelineRaise(j, e)
    \/ \E j \in 1..MaxJobs : PipelineTimeout(j)
    \/ \E j \in 1..MaxJobs : Deliver(j)
    \/ \E t \in 1..MaxNames : CancelReject(t)
    \/ \E t \in 1..MaxNames : CancelBegin(t)
    \/ \E h \in Handlers : CancelCheck(h)
    \/ \E h \in Handlers : CancelReturn(h)
    \/ cancel_all_background_tasks

Init == AInit /\ PIdle /\ SIdle /\ MIdle /\ XIdle

Spec == Init /\ [][Next]_vars

\* The event loop runs every coroutine that is ready, the database answers every
\* commit, and wait_for ends every pipeline call by its deadline at the latest.
JobStep(j) ==
    \/ Start(j)
    \/ Acquire(j)
    \/ Commit(j)
    \/ Resume(j)
    \/ Deliver(j)
    \/ \E r \in {OutputPath(t) : t \in 1..MaxNames} \cup {None} : PipelineReturn(j, r)
    \/ \E e \in PipelineErrors : PipelineRaise(j, e)
    \/ PipelineTimeout(j)

Fairness == \A j \in 1..MaxJobs : WF_vars(JobStep(j))

SpecLive == Init /\ [][Next]_vars /\ Fairness

InitPipeline == AInit /\ PInit /\ SIdle /\ MIdle /\ XIdle

NextPipeline ==
    \/ generate_video
    \/ auto_select_prompt
    \/ \E o \in Outcomes : analyze_uploaded_video(o)
    \/ \E o \in Outcomes : get_content_from_source(o)
    \/ \E o \in Outcomes : generate_transcript(o)
    \/ \E o \in Outcomes : generate_final_transcript(o)
    \/ \E o \in Outcomes : generate_final_transcript_retry(o)
    \/ load_transcript
    \/ plan_effects
    \/ \E o \in Outcomes : process_audio(o)
    \/ process_videos
    \/ \E o \in Outcomes : get_search_terms(o)
    \/ \E o \in Outcomes : get_videos(o)
    \/ create_clips_from_upload
    \/ \E o \in Outcomes : create_video(o)
    \/ generate_youtube_meta
    \/ cancel_pipeline

SpecPipeline == InitPipeline /\ [][NextPipeline]_vars

InitSelect == AInit /\ PIdle /\ SInit /\ MIdle /\ XIdle

NextSelect == FindClosest

SpecSelect == InitSelect /\ [][NextSelect]_vars

InitMaterial == AInit /\ PIdle /\ SIdle /\ MInit /\ XIdle

NextMaterial ==
    \/ \E items \in SearchResults : search_videos(items)
    \/ helper_raises
    \/ \E o \in DownloadOutcomes : save_video(o)

SpecMaterial == InitMaterial /\ [][NextMaterial]_vars

InitExpand == AInit /\ PIdle /\ SIdle /\ MIdle /\ XInit

NextExpand == ExpandReels

SpecExpand == InitExpand /\ [][NextExpand]_vars

(***************************************************************************)
(* Properties of the admission controller and the task state machine       *)
(***************************************************************************)
\* a suspended handler of cancel_task leaves with its response in this step
Returned(h) ==
    /\ CopiesIn(h, creq') < CopiesIn(h, creq)
    /\ BagCardinality(creq') < BagCardinality(creq)

\* cancel() is called on job j in this step
CancelRequested(j) == ~jobs[j].must_cancel /\ jobs'[j].must_cancel

\* C1: at no instant do more than max_concurrent_tasks tasks have status Running.
C1_RunningBounded ==
    Cardinality({t \in DOMAIN db : db[t].status = RUNNING}) <= max_concurrent_tasks

\* C2: a task whose status is Completed, Failed or Timeout keeps that status in
\* every later step.
C2_TerminalAbsorbing ==
    [][\A t \in DOMAIN db : db[t].status \in Terminal => db'[t].status = db[t].status]_vars

\* C3: when a cancel handler that read a Running row returns success, the task is
\* Failed with the cancellation message and none of its jobs is executing.
C3_CancelStopsRun ==
    [][\A h \in BagToSet(creq) : Returned(h) =>
          /\ db'[h.task].status = FAILED
          /\ db'[h.task].error_message = CancelMessage
          /\ \A j \in DOMAIN jobs' : jobs'[j].task = h.task => jobs'[j].pc \notin SlotPcs]_vars

\* C4: the registry never holds the handle of a finished job.
C4_NoFinishedHandle ==
    \A t \in DOMAIN reg : reg[t] # NoJob => ~Done(reg[t])

\* C5: a Completed task has its output path as result and no error message.
C5_CompletedHasArtifact ==
    \A t \in DOMAIN db : db[t].status = COMPLETED =>
        (db[t].result = OutputPath(t) /\ db[t].error_message = None)

\* C6: a job whose pipeline hit the deadline ends with its task in Timeout with the
\* limit message, its permit released and its registry entry removed.
C6_TimeoutRecorded ==
    [][\A j \in DOMAIN jobs : (jobs[j].pc = "w_timeout" /\ jobs'[j].pc = "done") =>
          /\ db'[jobs[j].task].status = TIMEOUT
          /\ db'[jobs[j].task].error_message = TimeoutMessage
          /\ permits' = permits + 1
          /\ reg'[jobs[j].task] = NoJob]_vars

\* C7: a job whose pipeline raised ends with its task Failed, with an error message
\* and no result.
C7_RaiseEndsFailed ==
    [][\A j \in DOMAIN jobs : (jobs[j].pc = "w_failed" /\ jobs'[j].pc = "done") =>
          /\ db'[jobs[j].task].status = FAILED
          /\ db'[jobs[j].task].error_message # None
          /\ db'[jobs[j].task].result = None]_vars

\* C8: a cancel request that reads a row that is not Running is answered 400 and
\* nothing else: the answer changes no row, job, registry entry, gauge or permit;
\* no handler passes the status check for such a task, so none answers 200 or calls
\* cancel() for it.
C8_NotRunningRejected ==
    [][/\ (resp' # resp /\ resp' = "400") =>
            UNCHANGED <<db, jobs, reg, running, permits, waiters, creq>>
       /\ \A t \in 1..MaxNames : get_status(t) # RUNNING =>
            CopiesIn(Frame("check", t, NoJob), creq') <= CopiesIn(Frame("check", t, NoJob), creq)
       /\ (resp' # resp /\ resp' = "200") => \E h \in BagToSet(creq) : Returned(h)
       /\ \A j \in DOMAIN jobs : CancelRequested(j) =>
            \/ stopped' # stopped
            \/ \E h \in BagToSet(creq) :
                  h.pc = "check" /\ reg[h.task] = j /\ CopiesIn(h, creq') < CopiesIn(h, creq)]_vars

\* a cancel request on a task in a terminal state has been answered 400
C8_Witness ==
    resp = "400" /\ \E t \in DOMAIN db : db[t].status \in Terminal

\* C12: a job whose pipeline raised for lack of material ends with its task Failed
\* and the message of the material stage.
C12_NoMaterialEndsFailed ==
    [][\A j \in DOMAIN jobs :
          (jobs[j].pc = "w_failed" /\ jobs[j].error = "No video found"
              /\ jobs'[j].pc = "done") =>
          /\ db'[jobs[j].task].status = FAILED
          /\ db'[jobs[j].task].error_message = "No video found"]_vars

\* the job has been created and holds no slot yet
WaitingForSlot(j) == j \in DOMAIN jobs /\ jobs[j].pc \in {"created", "wait_slot"}

\* the job runs the pipeline with its row Running, or cancel() was called on it
StartedOrCancelled(j) ==
    /\ j \in DOMAIN jobs
    /\ \/ jobs[j].must_cancel
       \/ jobs[j].pc = "pipeline" /\ db[jobs[j].task].status = RUNNING

SlotHolders == {j \in DOMAIN jobs : jobs[j].pc \in SlotPcs}

\* C25: a submit is possible whatever the number of free slots; every job that
\* waits for a slot is eventually started with its row Running unless it is
\* cancelled; and the free permits plus the jobs holding a slot always add up to
\* max_concurrent_tasks, so every exit gives its slot back exactly once.
C25_AdmissionLiveness ==
    /\ [](permits + Cardinality(SlotHolders) = max_concurrent_tasks)
    /\ []((~stopped /\ Len(jobs) < MaxJobs) => ENABLED (\E n \in 1..MaxNames : Submit(n)))
    /\ \A j \in 1..MaxJobs : WaitingForSlot(j) ~> StartedOrCancelled(j)

\* the second job waited for the only slot, got it when the first job ended, and
\* runs with its row Running; nothing was cancelled
C25_Witness ==
    /\ Len(jobs) = 2
    /\ Done(1)
    /\ jobs[2].pc = "pipeline"
    /\ db[jobs[2].task].status = RUNNING
    /\ db[jobs[1].task].status \in Terminal
    /\ jobs[1].task # jobs[2].task
    /\ ~stopped

\* C26: a job that ends while holding a slot, however it ends, does not leave
\* the row of its task Running.
C26_NoJobEndsInRunning ==
    [][\A j \in DOMAIN jobs :
          (j \in SlotHolders /\ jobs'[j].pc = "done") =>
              db'[jobs[j].task].status # RUNNING]_vars

\* C27: the gauge equals the number of jobs holding a slot, so the reported
\* available_slots equals the number of free permits.
C27_GaugeAccurate ==
    /\ running = Cardinality(SlotHolders)
    /\ max_concurrent_tasks - running = permits

\* C28: no two unfinished jobs belong to the same task id, and the registry maps
\* the task id of every unfinished job to that job.
C28_OneJobPerTask ==
    /\ \A j, k \in DOMAIN jobs :
          (j # k /\ ~Done(j) /\ ~Done(k)) => jobs[j].task # jobs[k].task
    /\ \A j \in DOMAIN jobs : ~Done(j) => reg[jobs[j].task] = j

\* C23: a job whose pipeline raised "Error generate audio", the error of a content
\* unit that used up its max_retries attempts, ends with its row Failed and that
\* message recorded.
C23_AudioFailureEndsFailed ==
    [][\A j \in DOMAIN jobs :
          (jobs[j].pc = "w_failed" /\ jobs[j].error = "Error generate audio"
             /\ jobs'[j].pc = "done") =>
              /\ db'[jobs[j].task].status = FAILED
              /\ db'[jobs[j].task].error_message = "Error generate audio"]_vars

TimestampsOk(row) ==
    /\ row.status = RUNNING => (row.start_time # NoTime /\ row.end_time = NoTime)
    /\ row.status \in Terminal => row.end_time # NoTime

\* C15: a Running row has start_time set and end_time null, a terminal row has
\* end_time set, and a step into a terminal status leaves start_time as it was.
C15_Timestamps ==
    /\ [](\A t \in DOMAIN db : TimestampsOk(db[t]))
    /\ [][\A t \in DOMAIN db :
             (db[t].status # db'[t].status /\ db'[t].status \in Terminal) =>
                 db'[t].start_time = db[t].start_time]_vars

\* the run of a task by job 2 has ended: the row carries the instant of that
\* job's Running write as start_time and of its terminal write as end_time
C15_Witness ==
    \E t \in DOMAIN db :
        /\ db[t].status \in Terminal
        /\ db[t].start_time = Now(2, RUNNING)
        /\ db[t].end_time = Now(2, FAILED)

\* C16: the gauge of running jobs is never negative.
C16_GaugeNonNegative == running >= 0

\* the gauge is already 0 while a job still holds the slot: a job that was
\* cancelled in the queue of the semaphore has decremented it
C16_Witness ==
    /\ running = 0
    /\ permits = 0
    /\ \E j \in DOMAIN jobs : jobs[j].pc \in SlotPcs
    /\ \E j \in DOMAIN jobs : Done(j)

(***************************************************************************)
(* Properties of the pipeline                                              *)
(***************************************************************************)
ReturnedOutput == [kind |-> "return", val |-> OutputPath(1)]

\* C9: once an invocation has returned the output path, the next invocation on the
\* same directory returns at once with the same path and has made no external call.
C9_Idempotent ==
    (nruns >= 2 /\ prev = ReturnedOutput) =>
        (ppc = "idle" /\ ret = ReturnedOutput /\ TotalCalls = 0)

\* a second invocation on a directory whose first invocation composed the output
C9_Witness ==
    /\ nruns = 2
    /\ prev = ReturnedOutput
    /\ ret = ReturnedOutput
    /\ fs["output"] = "valid"
    /\ fs["meta"] = "valid"

\* the position at which a stage looks for its own checkpoint
ReadPc ==
    [analysis |-> "analyze", html |-> "content", draft |-> "draft", script |-> "load",
     effects |-> "effects", durations |-> "audio", videos |-> "videos", meta |-> "meta"]

\* the checkpoint of the stage on whose behalf a position calls outside the
\* process; the style selection has no checkpoint of its own and belongs to the
\* block that computes the script
StageFile ==
    [analyze |-> "analysis", content |-> "html", draft |-> "draft",
     auto_select |-> "script", reselect |-> "script", final |-> "script",
     final_retry |-> "script", load |-> "script", effects |-> "effects",
     audio |-> "durations", videos |-> "videos", terms |-> "terms",
     material |-> "videos", clips |-> "videos", compose |-> "output", meta |-> "meta"]

\* C13: a stage that finds a failure marker in its text checkpoint (raw content,
\* draft, structured transcript) does not keep the file: it deletes or replaces it.
C13_MarkerNeverAccepted ==
    [][\A f \in {"html", "draft", "script"} :
          (ppc = ReadPc[f] /\ fs[f] = "marker") => fs'[f] # "marker"]_vars

\* C17: no step removes or spoils a good checkpoint, and a step calls outside the
\* process only for a stage whose checkpoint is not present and valid.
C17_ResumeFromCheckpoints ==
    [][/\ \A f \in Files : fs[f] = "valid" => fs'[f] = "valid"
       /\ (ppc # "idle" /\ calls' # calls) => fs[StageFile[ppc]] # "valid"]_vars

\* a second invocation, after one that failed for lack of material, has reached the
\* material stage again without any call to the LLM, the fetcher or the TTS
C17_Witness ==
    /\ nruns = 2
    /\ prev = [kind |-> "raise", val |-> "No video found"]
    /\ ppc = "material"
    /\ fs["durations"] = "valid"
    /\ TotalCalls = 0

\* C18: a step that ends the run with an exception creates no checkpoint file.
C18_FailedStageLeavesNoFile ==
    [][(ppc # "idle" /\ ret'.kind = "raise") =>
          \A f \in Files : fs[f] = "missing" => fs'[f] = "missing"]_vars

\* C19: a stage that finds its checkpoint empty recomputes it: the step neither
\* fails the run nor leaves the empty file in place.
C19_EmptyIsCacheMiss ==
    [][\A f \in DOMAIN ReadPc :
          (ppc = ReadPc[f] /\ fs[f] = "empty") =>
              (ret'.kind # "raise" /\ fs'[f] # "empty")]_vars

\* C24: outside the audio stage a step that makes an external call is not
\* repeated: the stage moves on or fails the run. (The second attempt of the
\* structured transcript is a position of its own, "final_retry".)
C24_OnlyAudioRetries ==
    [][(ppc \notin {"idle", "audio"} /\ calls' # calls) => ppc' # ppc]_vars

(***************************************************************************)
(* Properties of the clip selection                                        *)
(***************************************************************************)
\* candidates the first loop considers
AboveIndices ==
    {i \in DOMAIN video_items :
        Eligible(video_items[i], urls) /\ AboveTarget(video_items[i], audio_length)}

\* C10: whenever some eligible candidate is longer than target + 1, the candidate
\* returned is an eligible one with the smallest overshoot among them.
C10_BestFitAbove ==
    (closest.state = "returned" /\ AboveIndices # {}) =>
        /\ \E i \in AboveIndices : closest.video = video_items[i]
        /\ \A i \in AboveIndices : closest.video.duration <= video_items[i].duration

\* C29: the call returns no candidate exactly when no candidate with a URL outside
\* the used set is longer than target + 1 (2 half seconds); a returned candidate
\* is one of the list, has its URL outside the used set and is longer than
\* target + 1; the call changes neither the list nor the used set.
C29_ReturnsAcceptableOrNone ==
    /\ [](closest.state = "returned" =>
            LET acceptable == {i \in DOMAIN video_items :
                                 /\ video_items[i].url \notin urls
                                 /\ video_items[i].duration > audio_length + 2}
            IN /\ closest.video = NoVideo <=> acceptable = {}
               /\ closest.video # NoVideo =>
                      \E i \in acceptable : closest.video = video_items[i])
    /\ [][video_items' = video_items /\ urls' = urls]_vars

\* nothing is returned although a candidate is long enough: its URL is used
C29_Witness ==
    /\ closest.state = "returned"
    /\ closest.video = NoVideo
    /\ \E i \in DOMAIN video_items :
          video_items[i].duration > audio_length + 2 /\ video_items[i].url \in urls

(***************************************************************************)
(* Properties of the material stage                                        *)
(***************************************************************************)
\* C11: in every material mode the resolved material list never holds the same
\* URL twice.
C11_NoUrlTwice ==
    \A i, j \in DOMAIN videos : i # j => videos[i].url # videos[j].url

\* every URL is already in the list and every cached file is playable, so the
\* third request failed only because its candidates were excluded as used
C11_Witness ==
    /\ msource = "all"
    /\ Len(videos) = MaxUrls
    /\ murls = 1..MaxUrls
    /\ \A u \in 1..MaxUrls : cache[u] = "playable"
    /\ idx = 2
    /\ mpc = "failed"

PathReturned ==
    /\ mpc = "save"
    /\ IF msource = "single"
         THEN save_i' > save_i \/ mpc' = "done"
         ELSE Len(videos') > Len(videos)

\* C20: whenever save_video returns a path, the cached file of that URL is a
\* playable clip.
C20_ReturnedClipPlayable ==
    [][PathReturned => cache'[SavingUrl] = "playable"]_vars

\* every term, page and helper of the current request has been tried
Exhausted ==
    /\ hpos = Len(HelperOrder(msource, idx, n_helpers))
    /\ page = max_page(msource)
    /\ term = MaxTerms

\* C21: the step that fails the material stage is taken on the last helper of
\* the request's order, and when it is a failed download every term and page of
\* that helper has been tried as well: a search that raises moves on to the next
\* helper, a download that fails moves on to the next combination.
C21_FailsOnlyWhenExhausted ==
    [][(mpc # "failed" /\ mpc' = "failed") =>
          /\ hpos = Len(HelperOrder(msource, idx, n_helpers))
          /\ mpc = "save" => Exhausted]_vars

\* C30: whenever save_video returns "" for a URL, the cache holds no file for that
\* URL that a later call would return as a hit (a non-empty file).
C30_RejectedClipNotCached ==
    [][(mpc = "save" /\ ~PathReturned) =>
          cache'[SavingUrl] \in {"missing", "empty"}]_vars

(***************************************************************************)
(* Properties of the reels expansion                                       *)
(***************************************************************************)
\* expanded requests made for paragraph i
RequestsOf(i) == {k \in DOMAIN expanded.terms : expanded.terms[k] = i}

RECURSIVE SumOver(_, _)
SumOver(q, K) ==
    IF K = {} THEN 0
    ELSE LET k == CHOOSE x \in K : TRUE IN q[k] + SumOver(q, K \ {k})

\* C22: after the reels expansion the two lists have equal length, the requests
\* made for one paragraph have durations that sum to the paragraph's duration,
\* and all expanded durations sum to the sum of the original durations.
C22_ExpansionPreservesDuration ==
    (expanded.state = "done" /\ video_type = "reels") =>
        /\ Len(expanded.terms) = Len(expanded.durations)
        /\ \A i \in DOMAIN search_terms :
               SumOver(expanded.durations, RequestsOf(i)) = durations[i]
        /\ SumSeq(expanded.durations) = SumSeq(durations)

====
